---- MODULE Spec2Model ----
(***************************************************************************)
(* Model of iCHEF/action-request-review, load-ranked variant               *)
(* (src/unnamed/part_000): the rate limiter, the review-load estimator,    *)
(* the reviewer selection and the orchestrator `run`; and of the two       *)
(* random variants of src/src/index.js (ShuffleSpec, SimpleSpec).          *)
(*                                                                         *)
(* One action is one macrotask of the JavaScript event loop (a timer tick  *)
(* or the arrival of an API response) together with every microtask it     *)
(* causes, in the order the promise jobs are run; LimiterStepSpec takes    *)
(* the promise jobs of the limiter one at a time.                          *)
(***************************************************************************)
EXTENDS Integers, Sequences, FiniteSets, TLC

\* ------------------------------------------------------------------ bounds
\* run() calls made by the generic client of LimiterSpec
MaxOps == 3
\* time advances in steps of Interval \div StepsPerInterval
StepsPerInterval == 2

\* the `count` input ranges over 0..MaxCount
MaxCount == 3
\* a search query reports a total_count in 0..MaxLoad
MaxLoad == 1

\* --------------------------------------------------------------- constants
\* createRateLimiter({ interval: 1000 })
Interval == 1000

VARIABLES
  limiter,     \* the closure state of createRateLimiter
  sinceLast,   \* LimiterSpec: time since the last operation start, capped at Interval
  calls,       \* LimiterSpec: number of run() calls made so far
  opResult,    \* LimiterSpec: what each operation's own promise settled with
  promise,     \* LimiterSpec: what the promise returned by run() settled with
  input,       \* the pull request event and the action's inputs
  pc,          \* the API call `run` is waiting for
  reviewedUsers,         \* run: users who submitted a review, minus the author
  alreadyInvolvedUsers,  \* run: reviewedUsers followed by requestedUsers
  frame,       \* the locals of the getReviewers call
  out          \* what the run did: selector calls, requests, failures

client == <<calls, opResult, promise>>
program == <<input, pc, reviewedUsers, alreadyInvolvedUsers, frame, out>>
vars == <<limiter, sinceLast, calls, opResult, promise,
          input, pc, reviewedUsers, alreadyInvolvedUsers, frame, out>>

Min(a, b) == IF a < b THEN a ELSE b

\* ------------------------------------------------------------ rate limiter
\* queue = [], counter = 0, running = false; no interval timer exists.
\* timers maps each live setInterval handle to the time left until it fires;
\* inflight holds the started tasks whose completion callback has not run,
\* each with the handle that callback closes over.  created only observes:
\* the number of setInterval calls.
createRateLimiter ==
  [queue |-> <<>>, counter |-> 0, running |-> FALSE,
   timers |-> <<>>, inflight |-> {}, created |-> 0]

\* A handle no live timer and no pending completion callback refers to.
NewHandle(L) ==
  LET used == DOMAIN L.timers \cup {t.handle : t \in L.inflight}
  IN  CHOOSE h \in 1..(Cardinality(used) + 1) :
        h \notin used /\ \A k \in 1..(h - 1) : k \in used

\* setInterval(callback, interval): the handle fires a full interval from now.
SetInterval(timers, h) ==
  [k \in DOMAIN timers \cup {h} |-> IF k = h THEN Interval ELSE timers[k]]

\* clearInterval(handle): a handle already cleared is left alone.
ClearInterval(timers, h) ==
  [k \in DOMAIN timers \ {h} |-> timers[k]]

StartTimerAlways(L) ==
  [L EXCEPT !.timers = SetInterval(@, NewHandle(L)),
            !.running = TRUE,
            !.created = @ + 1]

\* if (!running) { const handle = setInterval(...); running = true; }
StartTimerIfIdle(L) ==
  IF ~L.running
    THEN [L EXCEPT !.timers = SetInterval(@, NewHandle(L)),
                   !.running = TRUE,
                   !.created = @ + 1]
    ELSE L

RateLimiterRunUncounted(L, op) ==
  StartTimerIfIdle([L EXCEPT !.queue = Append(@, op)])

\* rateLimiter.run(fn): queue.push, counter += 1, then the timer.
RateLimiterRun(L, op) ==
  StartTimerIfIdle([L EXCEPT !.queue = Append(@, op), !.counter = @ + 1])

DequeueLast(q) == [task |-> q[Len(q)], rest |-> SubSeq(q, 1, Len(q) - 1)]

\* const task = queue.shift()
Dequeue(q) == [task |-> Head(q), rest |-> Tail(q)]

IntervalCallbackOneAtATime(L, h) ==
  IF Len(L.queue) > 0 /\ L.inflight = {}
    THEN [L EXCEPT !.queue = Tail(@),
                   !.running = TRUE,
                   !.inflight = @ \cup {[op |-> Head(L.queue), handle |-> h]}]
    ELSE L

\* The setInterval callback of handle h: start the head of the queue, if any.
IntervalCallback(L, h) ==
  IF Len(L.queue) > 0
    THEN LET d == Dequeue(L.queue)
         IN  [L EXCEPT !.queue = d.rest,
                       !.running = TRUE,
                       !.inflight = @ \cup {[op |-> d.task, handle |-> h]}]
    ELSE L

LimiterIdleWhenQueueEmpty(L) == Len(L.queue) = 0

\* Whether the completion callback stops the timer: if (counter === 0).
LimiterIdle(L) == L.counter = 0

\* .finally(() => { counter -= 1; if (counter === 0) { clearInterval(handle);
\* running = false; } }) of the task that ran operation op.
FinallyCallback(L, op) ==
  LET t   == CHOOSE x \in L.inflight : x.op = op
      dec == [L EXCEPT !.counter = @ - 1, !.inflight = @ \ {t}]
  IN  IF LimiterIdle(dec)
        THEN [dec EXCEPT !.timers = ClearInterval(@, t.handle),
                         !.running = FALSE]
        ELSE dec

ChainOutcomeSwallowing(o) ==
  [state |-> "fulfilled", value |-> IF o.state = "fulfilled" THEN o.value ELSE 0]

\* task.fn().then(task.resolve).catch(task.reject): what the promise returned
\* by run() settles with when fn()'s promise settles with outcome o.
ChainOutcome(o) ==
  IF o.state = "fulfilled"
    THEN [state |-> "fulfilled", value |-> o.value]
    ELSE [state |-> "rejected", value |-> o.value]

InFlightOps(L) == {t.op : t \in L.inflight}

\* The operations a step from L to M starts.
StartedIn(L, M) == InFlightOps(M) \ InFlightOps(L)

\* -------------------------------------------------------------------- time
TimeStep == Interval \div StepsPerInterval

\* The time to the next moment a timer is due, at most one time step.
NextDue(L, most) ==
  LET lefts == {L.timers[h] : h \in DOMAIN L.timers} \cup {most}
  IN  CHOOSE x \in lefts : \A y \in lefts : x <= y

Elapse(L, d) == [L EXCEPT !.timers = [h \in DOMAIN @ |-> @[h] - d]]

\* The interval timer h fires and setInterval re-arms it.
TimerFires(L, h) == [IntervalCallback(L, h) EXCEPT !.timers[h] = Interval]

\* Time passes, up to the next moment a timer is due.
AdvanceTime ==
  /\ \A h \in DOMAIN limiter.timers : limiter.timers[h] > 0
  /\ DOMAIN limiter.timers # {} \/ sinceLast < Interval
  /\ LET d == NextDue(limiter, TimeStep)
     IN  /\ limiter' = Elapse(limiter, d)
         /\ sinceLast' = Min(Interval, sinceLast + d)
  /\ UNCHANGED <<client, program>>

\* A due interval timer fires.
Tick ==
  \E h \in DOMAIN limiter.timers :
    /\ limiter.timers[h] = 0
    /\ limiter' = TimerFires(limiter, h)
    /\ sinceLast' = IF StartedIn(limiter, limiter') # {}
                      THEN 0 ELSE sinceLast
    /\ UNCHANGED <<client, program>>

\* Time passes until the next timer is due, and it fires: what the program
\* does depends on the order of ticks and responses, not on their times, and
\* the time since the last start is observed under LimiterSpec only.
NextTick ==
  /\ DOMAIN limiter.timers # {}
  /\ LET d == NextDue(limiter, Interval)
         L == Elapse(limiter, d)
     IN  \E h \in DOMAIN L.timers :
           /\ L.timers[h] = 0
           /\ limiter' = TimerFires(L, h)
  /\ UNCHANGED <<sinceLast, client, program>>

\* ------------------------------------------------------- arrays and lodash
Range(s) == {s[i] : i \in 1..Len(s)}

\* array.includes(x)
Includes(array, x) == x \in Range(array)

\* _.difference(array, ...values): array's entries, in order, that are in
\* none of the value lists (given here as their union).
Difference(array, values) == SelectSeq(array, LAMBDA x : x \notin values)

\* _.take(array, n)
Take(array, n) == IF n <= 0 THEN <<>> ELSE SubSeq(array, 1, Min(Len(array), n))

\* _.uniq(array): the first occurrence of each entry, in order.
RECURSIVE Uniq(_)
Uniq(array) ==
  IF Len(array) = 0 THEN <<>>
  ELSE LET init == Uniq(SubSeq(array, 1, Len(array) - 1))
           last == array[Len(array)]
       IN  IF Includes(init, last) THEN init ELSE Append(init, last)

UsernamesOf(list) == [i \in 1..Len(list) |-> list[i].username]

\* _.without(array, x)
Without(array, x) == SelectSeq(array, LAMBDA y : y # x)

\* lists.find(list => list.includes(x)); a miss is `undefined`, which
\* _.difference reads as the empty array.
FindIncluding(lists, x) ==
  IF \E i \in 1..Len(lists) : Includes(lists[i], x)
    THEN lists[CHOOSE i \in 1..Len(lists) :
                 /\ Includes(lists[i], x)
                 /\ \A k \in 1..(i - 1) : ~Includes(lists[k], x)]
    ELSE <<>>

RECURSIVE SortByUnstable(_)
SortByUnstable(users) ==
  IF Len(users) <= 1 THEN users
  ELSE LET last == users[Len(users)]
           init == SortByUnstable(SubSeq(users, 1, Len(users) - 1))
           keep == Cardinality({i \in 1..Len(init) :
                                  init[i].reviewLoading < last.reviewLoading})
       IN  SubSeq(init, 1, keep) \o <<last>> \o SubSeq(init, keep + 1, Len(init))

\* _.sortBy(users, 'reviewLoading'): ascending and stable.
RECURSIVE SortBy(_)
SortBy(users) ==
  IF Len(users) <= 1 THEN users
  ELSE LET last == users[Len(users)]
           init == SortBy(SubSeq(users, 1, Len(users) - 1))
           keep == Cardinality({i \in 1..Len(init) :
                                  init[i].reviewLoading <= last.reviewLoading})
       IN  SubSeq(init, 1, keep) \o <<last>> \o SubSeq(init, keep + 1, Len(init))

\* ------------------------------------------------------------------ config
Users == {"a", "b", "c", "d"}
\* config.mentors[author] of an author without a mentor: undefined
NoUser == "undefined"

Authors == {"a", "b"}

TeamsOptions ==
  { <<>>,
    << <<"a", "b", "c">> >>,
    << <<"c", "d">>, <<"d", "a", "b">> >> }

MentorshipGroupsOptions ==
  { <<>>,
    << <<"b", "a", "d">> >>,
    << <<"c", "d">>, <<"a", "c", "b">> >> }

MentorsOptions ==
  { [u \in Users |-> IF u = "a" THEN ma ELSE IF u = "c" THEN mc ELSE NoUser] :
      ma \in {NoUser, "a", "b", "d"}, mc \in {NoUser, "b"} }

Configs ==
  [teams : TeamsOptions, mentorshipGroups : MentorshipGroupsOptions,
   mentors : MentorsOptions]

\* logins of the submitted reviews, as octokit.pulls.listReviews returns them
ReviewLists == { <<>>, <<"b">>, <<"a", "c", "c">> }
\* logins of octokit.pulls.listRequestedReviewers
RequestedLists == { <<>>, <<"b">>, <<"d", "c">> }

\* -------------------------------------------------- review-load estimator
\* const menteesList = Object.entries(mentorMap).filter(...).map(...)
MenteesList(mentorMap, username) ==
  {mentee \in DOMAIN mentorMap : mentorMap[mentee] = username}

\* getReviewLoadingOfUser issues two queries, and two more for a user with
\* mentees.
QueriesOf(menteesList) == IF Cardinality(menteesList) < 1 THEN 2 ELSE 4

ReviewLoadingUndiscounted(counts) == 2 * (counts[1] + counts[2])

\* Twice the value getReviewLoadingOfUser returns (MENTEE_PULL_WEIGHT_RATIO is
\* 0.5, so the doubled score is an integer): counts are the total_count
\* results in the order of the queries.
ReviewLoading2(counts) ==
  IF Len(counts) = 2
    THEN 2 * (counts[1] + counts[2])
    ELSE 2 * (counts[1] + counts[2]) - counts[3] - counts[4]

Query(tier, i, q) == [tier |-> tier, i |-> i, q |-> q]

\* usernamesList.map(async username => ...): every user's first query is
\* passed to rateLimiter.run, in list order.
RECURSIVE StartQueries(_, _, _, _)
StartQueries(L, tier, n, i) ==
  IF i > n THEN L
  ELSE StartQueries(RateLimiterRun(L, Query(tier, i, 1)), tier, n, i + 1)

\* One estimate per user: the counts received so far.  rank only observes:
\* the place of this user among the users of the tier in the order in which
\* their estimates were fulfilled, 0 while it is not.
NewEstimates(usernamesList, mentorMap) ==
  [i \in 1..Len(usernamesList) |->
     [counts |-> <<>>,
      queries |-> QueriesOf(MenteesList(mentorMap, usernamesList[i])),
      state |-> "pending",
      rank |-> 0]]

\* The number of users of the tier whose estimate is fulfilled.
FulfilledCount(est) ==
  Cardinality({i \in 1..Len(est) : est[i].state = "fulfilled"})

\* Promise.all over the users, every one of them fulfilled.
UsersWithReviewLoading(usernamesList, est) ==
  [i \in 1..Len(usernamesList) |->
     [username |-> usernamesList[i],
      reviewLoading |-> ReviewLoading2(est[i].counts)]]

AllFulfilled(est) == \A i \in 1..Len(est) : est[i].state = "fulfilled"

\* ---------------------------------------------------------------- selector
TargetCountIgnoringInvolved(count, initialReviewers) == count

\* const targetCount = core.getInput('count') - initialReviewers.length
TargetCount(count, initialReviewers) == count - Len(initialReviewers)

\* The usernamesList of the team tier.
TeamCandidates(config, author, initialReviewers, mentor) ==
  Difference(FindIncluding(config.teams, author),
             Range(initialReviewers) \cup {author, mentor})

FirstBatchMentorLast(mentor, belongingTeamMembers) ==
  IF mentor # NoUser
    THEN belongingTeamMembers
           \o <<[username |-> mentor, reviewLoading |-> "(mentor)"]>>
    ELSE belongingTeamMembers

\* const firstBatchCandidates = mentor ? [{mentor}, ...team] : team
FirstBatchCandidates(mentor, belongingTeamMembers) ==
  IF mentor # NoUser
    THEN <<[username |-> mentor, reviewLoading |-> "(mentor)"]>>
           \o belongingTeamMembers
    ELSE belongingTeamMembers

\* The usernamesList of the mentorship-group tier.
GroupCandidates(config, author, initialReviewers, reviewers) ==
  Difference(FindIncluding(config.mentorshipGroups, author),
             Range(initialReviewers) \cup Range(UsernamesOf(reviewers))
               \cup {author})

\* if (reviewers.length < targetCount)
NeedsGroup(reviewers, targetCount) == Len(reviewers) < targetCount

NoFrame ==
  [config |-> <<>>, targetCount |-> 0, mentor |-> NoUser, tier |-> "none",
   usernamesList |-> <<>>, est |-> <<>>, reviewers |-> <<>>]

\* The mentorship-group tier is sorted: take the rest and return.
AfterGroup(L, f) ==
  LET mentorshipGroupMembers ==
        SortBy(UsersWithReviewLoading(f.usernamesList, f.est))
      remainingCount == f.targetCount - Len(f.reviewers)
      extraReviewers == Take(mentorshipGroupMembers, remainingCount)
  IN  [limiter |-> L,
       frame |-> [f EXCEPT !.tier = "returned",
                           !.reviewers = @ \o extraReviewers]]

\* The team tier is sorted: take the first batch, then enter the
\* mentorship-group tier or return.
AfterTeam(L, f, author, initialReviewers) ==
  LET belongingTeamMembers ==
        SortBy(UsersWithReviewLoading(f.usernamesList, f.est))
      reviewers ==
        Take(FirstBatchCandidates(f.mentor, belongingTeamMembers), f.targetCount)
  IN  IF NeedsGroup(reviewers, f.targetCount)
        THEN LET names == GroupCandidates(f.config, author, initialReviewers,
                                          reviewers)
                 g == [f EXCEPT !.tier = "group",
                                !.usernamesList = names,
                                !.est = NewEstimates(names, f.config.mentors),
                                !.reviewers = reviewers]
             IN  IF Len(names) = 0
                   THEN AfterGroup(L, g)
                   ELSE [limiter |-> StartQueries(L, "group", Len(names), 1),
                         frame |-> g]
        ELSE [limiter |-> L,
              frame |-> [f EXCEPT !.tier = "returned", !.reviewers = reviewers]]

\* getReviewers once the config is fetched, up to its next await.
AfterConfig(L, config, count, author, initialReviewers) ==
  LET mentor == config.mentors[author]
      names  == TeamCandidates(config, author, initialReviewers, mentor)
      f == [config |-> config,
            targetCount |-> TargetCount(count, initialReviewers),
            mentor |-> mentor,
            tier |-> "team",
            usernamesList |-> names,
            est |-> NewEstimates(names, config.mentors),
            reviewers |-> <<>>]
  IN  IF Len(names) = 0
        THEN AfterTeam(L, f, author, initialReviewers)
        ELSE [limiter |-> StartQueries(L, "team", Len(names), 1), frame |-> f]

\* ------------------------------------------------------------ orchestrator
\* errors: the API calls that have failed; setFailed: the messages given to
\* core.setFailed; getReviewers: the calls of the selector; selection: what
\* it returned; requestReviewers: the reviewers of each request made.
NoOut ==
  [errors |-> {}, setFailed |-> <<>>, getReviewers |-> <<>>,
   selection |-> <<>>, requestReviewers |-> <<>>]

\* The error a failed API call rejects with.
ErrorOf(api) == [api |-> api, message |-> api \o " failed"]

\* The API call fails.
Raise(o, api) == [o EXCEPT !.errors = @ \cup {api}]

\* catch (error) { core.setFailed(error.message); }
Catch(o, error) == [o EXCEPT !.setFailed = Append(@, error.message)]

\* [...reviewedUsers, ...requestedUsers]
AlreadyInvolvedUsers(reviewed, requestedUsers) == reviewed \o requestedUsers

\* if (alreadyInvolvedUsers.length >= targetCount) return
AlreadyMeetsTarget(involved, count) == Len(involved) >= count

\* getReviewers returned (or is still waiting): run goes on to
\* octokit.pulls.requestReviewers with the usernames.
Proceed(r, o) ==
  /\ limiter' = r.limiter
  /\ frame' = r.frame
  /\ IF r.frame.tier = "returned"
       THEN /\ pc' = "requestReviewers"
            /\ out' = [o EXCEPT
                 !.selection = Append(@, UsernamesOf(r.frame.reviewers)),
                 !.requestReviewers = Append(@, UsernamesOf(r.frame.reviewers))]
       ELSE /\ pc' = "search"
            /\ out' = o

\* run() is called: a draft pull request is skipped, otherwise the reviews
\* are listed.
RunStart ==
  /\ pc = "start"
  /\ pc' = IF input.draft THEN "done" ELSE "listReviews"
  /\ UNCHANGED <<limiter, sinceLast, client, input, reviewedUsers,
                 alreadyInvolvedUsers, frame, out>>

\* octokit.pulls.listReviews answers.
ListReviewsReturns ==
  /\ pc = "listReviews"
  /\ \/ \E logins \in ReviewLists :
          /\ reviewedUsers' = Without(Uniq(logins), input.author)
          /\ pc' = "listRequestedReviewers"
          /\ UNCHANGED out
     \/ /\ out' = Catch(Raise(out, "listReviews"), ErrorOf("listReviews"))
        /\ pc' = "done"
        /\ UNCHANGED reviewedUsers
  /\ UNCHANGED <<limiter, sinceLast, client, input, alreadyInvolvedUsers, frame>>

\* octokit.pulls.listRequestedReviewers answers: the decision, and the call
\* of getReviewers up to the config fetch.
ListRequestedReviewersReturns ==
  /\ pc = "listRequestedReviewers"
  /\ \/ \E requestedUsers \in RequestedLists :
          LET involved == AlreadyInvolvedUsers(reviewedUsers, requestedUsers)
          IN  /\ alreadyInvolvedUsers' = involved
              /\ IF AlreadyMeetsTarget(involved, input.count)
                   THEN pc' = "done" /\ UNCHANGED out
                   ELSE /\ pc' = "gists.get"
                        /\ out' = [out EXCEPT !.getReviewers =
                                     Append(@, [author |-> input.author,
                                                initialReviewers |-> involved])]
     \/ /\ out' = Catch(Raise(out, "listRequestedReviewers"),
                        ErrorOf("listRequestedReviewers"))
        /\ pc' = "done"
        /\ UNCHANGED alreadyInvolvedUsers
  /\ UNCHANGED <<limiter, sinceLast, client, input, reviewedUsers, frame>>

\* octokit.gists.get answers: getReviewers runs up to its next await.
FetchConfigReturns ==
  /\ pc = "gists.get"
  /\ \/ \E config \in Configs :
          Proceed(AfterConfig(limiter, config, input.count, input.author,
                              alreadyInvolvedUsers), out)
     \/ /\ out' = Catch(Raise(out, "gists.get"), ErrorOf("gists.get"))
        /\ pc' = "done"
        /\ UNCHANGED <<limiter, frame>>
  /\ UNCHANGED <<sinceLast, client, input, reviewedUsers, alreadyInvolvedUsers>>

SearchOutcomes ==
  {[state |-> "fulfilled", value |-> n] : n \in 0..MaxLoad}
    \cup {[state |-> "rejected", value |-> ErrorOf("search")]}

\* octokit.search.issuesAndPullRequests of a started query answers.  The
\* microtasks that follow: fulfilled: the estimator's continuation (its next
\* rateLimiter.run, or its return), the limiter's completion callback, then
\* Promise.all and getReviewers; rejected: the completion callback, then the
\* rejection travels up to run's catch.
SearchReturns ==
  \E op \in InFlightOps(limiter) : \E o \in SearchOutcomes :
    LET got  == ChainOutcome(o)
        e    == frame.est[op.i]
        out1 == IF o.state = "rejected" THEN Raise(out, "search") ELSE out
    IN  /\ op.tier = frame.tier
        /\ IF got.state = "fulfilled"
             THEN LET counts == Append(e.counts, got.value)
                      more   == Len(counts) < e.queries
                      est1 == [frame.est EXCEPT ![op.i] =
                                 [e EXCEPT !.counts = counts,
                                           !.state = IF more THEN "pending"
                                                     ELSE "fulfilled",
                                           !.rank = IF more THEN 0
                                                    ELSE FulfilledCount(frame.est) + 1]]
                      f1 == [frame EXCEPT !.est = est1]
                      L1 == IF more
                              THEN RateLimiterRun(limiter,
                                     Query(op.tier, op.i, Len(counts) + 1))
                              ELSE limiter
                      L2 == FinallyCallback(L1, op)
                  IN  IF pc = "search" /\ AllFulfilled(est1)
                        THEN Proceed(IF f1.tier = "team"
                                       THEN AfterTeam(L2, f1, input.author,
                                                      alreadyInvolvedUsers)
                                       ELSE AfterGroup(L2, f1),
                                     out1)
                        ELSE /\ limiter' = L2
                             /\ frame' = f1
                             /\ out' = out1
                             /\ UNCHANGED pc
             ELSE /\ limiter' = FinallyCallback(limiter, op)
                  /\ frame' = [frame EXCEPT !.est[op.i].state = "rejected"]
                  /\ IF pc = "search"
                       THEN pc' = "done" /\ out' = Catch(out1, got.value)
                       ELSE UNCHANGED pc /\ out' = out1
        /\ UNCHANGED <<sinceLast, client, input, reviewedUsers,
                       alreadyInvolvedUsers>>

\* octokit.pulls.requestReviewers answers.
RequestReviewersReturns ==
  /\ pc = "requestReviewers"
  /\ pc' = "done"
  /\ \/ UNCHANGED out
     \/ out' = Catch(Raise(out, "requestReviewers"), ErrorOf("requestReviewers"))
  /\ UNCHANGED <<limiter, sinceLast, client, input, reviewedUsers,
                 alreadyInvolvedUsers, frame>>

Inputs == [draft : BOOLEAN, author : Authors, count : 0..MaxCount]

NoInput == [draft |-> TRUE, author |-> NoUser, count |-> 0]

Init ==
  /\ limiter = createRateLimiter
  /\ sinceLast = Interval
  /\ calls = 0
  /\ opResult = <<>>
  /\ promise = <<>>
  /\ input \in Inputs
  /\ pc = "start"
  /\ reviewedUsers = <<>>
  /\ alreadyInvolvedUsers = <<>>
  /\ frame = NoFrame
  /\ out = NoOut

Next ==
  \/ RunStart
  \/ ListReviewsReturns
  \/ ListRequestedReviewersReturns
  \/ FetchConfigReturns
  \/ SearchReturns
  \/ RequestReviewersReturns
  \/ NextTick

Spec == Init /\ [][Next]_vars

\* ------------------------------------------------- LimiterSpec: any client
Pending == [state |-> "pending", value |-> 0]

Outcomes(op) ==
  {[state |-> "fulfilled", value |-> op], [state |-> "rejected", value |-> op]}

\* The client calls rateLimiter.run(fn) from a macrotask of its own.
ClientRun ==
  /\ calls < MaxOps
  /\ calls' = calls + 1
  /\ limiter' = RateLimiterRun(limiter, calls + 1)
  /\ UNCHANGED <<sinceLast, opResult, promise, program>>

\* The promise of a started operation settles.  The microtasks that follow:
\* fulfilled: task.resolve, the caller's continuation (which may call run()
\* again), then the completion callback; rejected: task.reject, the
\* completion callback, then the caller's continuation.
ClientSettle ==
  \E op \in InFlightOps(limiter) : \E o \in Outcomes(op) : \E again \in BOOLEAN :
    /\ again => calls < MaxOps
    /\ opResult' = [opResult EXCEPT ![op] = o]
    /\ promise' = [promise EXCEPT ![op] = ChainOutcome(o)]
    /\ calls' = IF again THEN calls + 1 ELSE calls
    /\ limiter' =
         IF ~again THEN FinallyCallback(limiter, op)
         ELSE IF o.state = "fulfilled"
           THEN FinallyCallback(RateLimiterRun(limiter, calls + 1), op)
           ELSE RateLimiterRun(FinallyCallback(limiter, op), calls + 1)
    /\ UNCHANGED <<sinceLast, program>>

LimiterInit ==
  /\ limiter = createRateLimiter
  /\ sinceLast = Interval
  /\ calls = 0
  /\ opResult = [op \in 1..MaxOps |-> Pending]
  /\ promise = [op \in 1..MaxOps |-> Pending]
  /\ input = NoInput
  /\ pc = "idle"
  /\ reviewedUsers = <<>>
  /\ alreadyInvolvedUsers = <<>>
  /\ frame = NoFrame
  /\ out = NoOut

LimiterNext == ClientRun \/ ClientSettle \/ Tick \/ AdvanceTime

LimiterSpec == LimiterInit /\ [][LimiterNext]_vars

\* The event loop fires a due timer, and time does not stop.
LimiterLive == LimiterSpec /\ WF_vars(Tick) /\ WF_vars(AdvanceTime)

\* ------------------------------ LimiterStepSpec: one promise job at a time
\* LimiterSpec with the promise jobs that follow the settling of an
\* operation as steps of their own; pc is the place in that chain.  No timer
\* fires, no time passes and no other macrotask runs before the jobs are
\* done (pc = "idle").
\*   fulfilled: task.resolve ("then"), the caller's continuation
\*     ("continued", or "continued by run()" when it called run()), the
\*     completion callback;
\*   rejected: task.reject ("catch"), the completion callback ("finally"),
\*     the caller's continuation.

\* The operation whose promise jobs are running.
DeliveredOp ==
  CHOOSE op \in InFlightOps(limiter) : promise[op].state # "pending"

StepClientRun == pc = "idle" /\ ClientRun

StepTick == pc = "idle" /\ Tick

StepAdvanceTime == pc = "idle" /\ AdvanceTime

\* The promise of a started operation settles, and task.resolve or
\* task.reject settles the promise run() returned.
StepSettle ==
  \E op \in InFlightOps(limiter) : \E o \in Outcomes(op) :
    /\ pc = "idle"
    /\ opResult' = [opResult EXCEPT ![op] = o]
    /\ promise' = [promise EXCEPT ![op] = ChainOutcome(o)]
    /\ pc' = IF o.state = "fulfilled" THEN "then" ELSE "catch"
    /\ UNCHANGED <<limiter, sinceLast, calls, input, reviewedUsers,
                   alreadyInvolvedUsers, frame, out>>

\* The caller's continuation runs; it may call run() again.
StepContinuation ==
  \E again \in BOOLEAN :
    /\ pc \in {"then", "finally"}
    /\ again => calls < MaxOps
    /\ calls' = IF again THEN calls + 1 ELSE calls
    /\ limiter' = IF again THEN RateLimiterRun(limiter, calls + 1) ELSE limiter
    /\ pc' = IF pc = "finally" THEN "idle"
             ELSE IF again THEN "continued by run()" ELSE "continued"
    /\ UNCHANGED <<sinceLast, opResult, promise, input, reviewedUsers,
                   alreadyInvolvedUsers, frame, out>>

\* The completion callback of the settled operation runs.
StepFinally ==
  /\ pc \in {"continued", "continued by run()", "catch"}
  /\ limiter' = FinallyCallback(limiter, DeliveredOp)
  /\ pc' = IF pc = "catch" THEN "finally" ELSE "idle"
  /\ UNCHANGED <<sinceLast, client, input, reviewedUsers,
                 alreadyInvolvedUsers, frame, out>>

LimiterStepNext ==
  \/ StepClientRun
  \/ StepTick
  \/ StepAdvanceTime
  \/ StepSettle
  \/ StepContinuation
  \/ StepFinally

LimiterStepSpec == LimiterInit /\ [][LimiterStepNext]_vars

\* ------------------------- ShuffleSpec: the random variant of src/src/index.js
\* (first getReviewers and run of the file).  run is the run of Spec without
\* the draft test: its listings, its decision and its reviewer request are
\* the same statements, so ListReviewsReturns, ListRequestedReviewersReturns
\* and RequestReviewersReturns are its actions too.  getReviewers makes no
\* load query: once the config is fetched it runs to its end in one piece.

\* _.shuffle(candidates): every order of the candidates is an outcome.
Shuffle(candidates) ==
  {[i \in 1..Len(candidates) |-> candidates[p[i]]] :
     p \in Permutations(1..Len(candidates))}

\* randomPick after its shuffle: pop from the end of shuffledCandidates until
\* pickCount results are there or none is left.
RandomPick(pickCount, shuffledCandidates) ==
  LET n == IF pickCount <= 0 THEN 0 ELSE Min(pickCount, Len(shuffledCandidates))
  IN  [k \in 1..n |-> shuffledCandidates[Len(shuffledCandidates) - k + 1]]

\* lists.find(list => list.includes(x)) finds a list; when it does not, it
\* is `undefined` and the .filter call on it throws a TypeError.
Found(lists, x) == \E i \in 1..Len(lists) : Includes(lists[i], x)

\* The TypeError of calling .filter on undefined.
TypeError == [api |-> "TypeError", message |-> "Cannot read property 'filter' of undefined"]

\* const targetCount = core.getInput('count')
ShuffleTargetCount(count, initialReviewers) == count

\* The mentor is pushed unless there is none or initialReviewers includes it.
ShuffleMentor(mentor, initialReviewers) ==
  IF mentor # NoUser /\ ~Includes(initialReviewers, mentor)
    THEN <<mentor>>
    ELSE <<>>

\* if (reviewers.length < 2)
ShuffleNeedsGroup(reviewers) == Len(reviewers) < 2

\* getReviewers returns: run requests the reviewers.  Here frame.reviewers is
\* the list of usernames itself.
GetReviewersReturns(config, targetCount, mentor, reviewers) ==
  /\ frame' = [NoFrame EXCEPT !.config = config, !.targetCount = targetCount,
                              !.mentor = mentor, !.tier = "returned",
                              !.reviewers = reviewers]
  /\ pc' = "requestReviewers"
  /\ out' = [out EXCEPT !.selection = Append(@, reviewers),
                        !.requestReviewers = Append(@, reviewers)]

\* getReviewers throws: run's catch reports the error.
GetReviewersThrows(config, targetCount, mentor, error) ==
  /\ frame' = [NoFrame EXCEPT !.config = config, !.targetCount = targetCount,
                              !.mentor = mentor, !.tier = "thrown"]
  /\ pc' = "done"
  /\ out' = Catch(Raise(out, error.api), error)

\* getReviewers(username, initialReviewers) once the config is fetched.
ShuffleGetReviewers(config, count, username, initialReviewers) ==
  LET targetCount == ShuffleTargetCount(count, initialReviewers)
      mentor == config.mentors[username]
      r0 == ShuffleMentor(mentor, initialReviewers)
  IN  IF ~Found(config.teams, username)
        THEN GetReviewersThrows(config, targetCount, mentor, TypeError)
        ELSE
          LET belongingTeamMembers ==
                Without(FindIncluding(config.teams, username), username)
              candidates == Difference(belongingTeamMembers,
                                       Range(r0) \cup Range(initialReviewers))
          IN  \E shuffled \in Shuffle(candidates) :
                LET r1 == r0 \o RandomPick(targetCount - Len(r0), shuffled)
                IN  IF ~ShuffleNeedsGroup(r1)
                      THEN GetReviewersReturns(config, targetCount, mentor, r1)
                    ELSE IF ~Found(config.mentorshipGroups, username)
                      THEN GetReviewersThrows(config, targetCount, mentor,
                                              TypeError)
                    ELSE
                      LET mentorshipGroupMembers ==
                            Without(FindIncluding(config.mentorshipGroups,
                                                  username), username)
                          extra == Difference(mentorshipGroupMembers,
                                     Range(r1) \cup Range(initialReviewers))
                      IN  \E shuffled2 \in Shuffle(extra) :
                            GetReviewersReturns(config, targetCount, mentor,
                              r1 \o RandomPick(targetCount - Len(r1), shuffled2))

\* run() is called: the reviews are listed.
ShuffleRunStart ==
  /\ pc = "start"
  /\ pc' = "listReviews"
  /\ UNCHANGED <<limiter, sinceLast, client, input, reviewedUsers,
                 alreadyInvolvedUsers, frame, out>>

\* octokit.gists.get answers: getReviewers runs to its end.
ShuffleFetchConfigReturns ==
  /\ pc = "gists.get"
  /\ \/ \E config \in Configs :
          ShuffleGetReviewers(config, input.count, input.author,
                              alreadyInvolvedUsers)
     \/ /\ out' = Catch(Raise(out, "gists.get"), ErrorOf("gists.get"))
        /\ pc' = "done"
        /\ UNCHANGED frame
  /\ UNCHANGED <<limiter, sinceLast, client, input, reviewedUsers,
                 alreadyInvolvedUsers>>

\* This run does not read the draft flag.
ShuffleInit ==
  /\ Init
  /\ ~input.draft

ShuffleNext ==
  \/ ShuffleRunStart
  \/ ListReviewsReturns
  \/ ListRequestedReviewersReturns
  \/ ShuffleFetchConfigReturns
  \/ RequestReviewersReturns

ShuffleSpec == ShuffleInit /\ [][ShuffleNext]_vars

\* ------------------- SimpleSpec: the simplest variant of src/src/index.js
\* (second getReviewers and run of the file): no listings and no count.

\* getReviewers(username) once the config is fetched.
SimpleGetReviewers(config, username) ==
  LET mentor == config.mentors[username]
      r0 == IF mentor # NoUser THEN <<mentor>> ELSE <<>>
  IN  IF ~Found(config.teams, username)
        THEN GetReviewersThrows(config, 0, mentor, TypeError)
        ELSE
          LET belongingTeamMembers ==
                Without(FindIncluding(config.teams, username), username)
          IN  \E shuffled \in Shuffle(belongingTeamMembers) :
                LET r1 == r0 \o RandomPick(1, shuffled)
                IN  IF ~ShuffleNeedsGroup(r1)
                      THEN GetReviewersReturns(config, 0, mentor, r1)
                    ELSE IF ~Found(config.mentorshipGroups, username)
                      THEN GetReviewersThrows(config, 0, mentor, TypeError)
                    ELSE
                      LET mentorshipGroupMembers ==
                            Without(FindIncluding(config.mentorshipGroups,
                                                  username), username)
                          candidates == Difference(mentorshipGroupMembers,
                                                   Range(r1))
                      IN  \E shuffled2 \in Shuffle(candidates) :
                            GetReviewersReturns(config, 0, mentor,
                              r1 \o RandomPick(1, shuffled2))

\* run() is called: getReviewers(author) fetches the config.
SimpleRunStart ==
  /\ pc = "start"
  /\ pc' = "gists.get"
  /\ out' = [out EXCEPT !.getReviewers =
               Append(@, [author |-> input.author, initialReviewers |-> <<>>])]
  /\ UNCHANGED <<limiter, sinceLast, client, input, reviewedUsers,
                 alreadyInvolvedUsers, frame>>

\* octokit.gists.get answers: getReviewers runs to its end.
SimpleFetchConfigReturns ==
  /\ pc = "gists.get"
  /\ \/ \E config \in Configs : SimpleGetReviewers(config, input.author)
     \/ /\ out' = Catch(Raise(out, "gists.get"), ErrorOf("gists.get"))
        /\ pc' = "done"
        /\ UNCHANGED frame
  /\ UNCHANGED <<limiter, sinceLast, client, input, reviewedUsers,
                 alreadyInvolvedUsers>>

\* This run reads neither the draft flag nor count.
SimpleInit ==
  /\ Init
  /\ ~input.draft
  /\ input.count = 0

SimpleNext ==
  \/ SimpleRunStart
  \/ SimpleFetchConfigReturns
  \/ RequestReviewersReturns

SimpleSpec == SimpleInit /\ [][SimpleNext]_vars

\* ----------------------------------------------------------------- claims
TimerFired ==
  \E h \in DOMAIN limiter.timers :
    /\ limiter.timers[h] = 0
    /\ h \in DOMAIN limiter'.timers
    /\ limiter'.timers[h] = Interval

\* The generic client's operation op has been started: it is in flight or
\* its promise is settled.
Started(op) == op \in InFlightOps(limiter) \/ promise[op].state # "pending"

\* C2: a step starts at most one operation, and only when a full interval
\* has passed since the previous start, also after a stop and restart of the
\* timer.
C2_OneStartPerInterval ==
  [][StartedIn(limiter, limiter') # {} =>
       /\ Cardinality(StartedIn(limiter, limiter')) = 1
       /\ sinceLast = Interval]_vars

\* An operation has just been started by a timer created after the limiter
\* had gone idle, less than an interval after the previous operation settled.
C2_Witness ==
  /\ limiter.created >= 2
  /\ \A op \in 1..calls : Started(op)
  /\ limiter.inflight # {}
  /\ sinceLast = 0

\* C7: every operation passed to run() is eventually started, whatever
\* happens to the operations before it (rejected, or pending for ever), and
\* the promise run() returned settles with the operation's own outcome.
C7_EveryOpStartsAndSettlesAsItself ==
  /\ \A op \in 1..MaxOps : (calls >= op) ~> Started(op)
  /\ [](\A op \in 1..MaxOps : promise[op] = opResult[op])

\* Operation 1 was rejected, operation 2 is still pending, and operation 3
\* has been started.
C7_Witness ==
  /\ MaxOps >= 3
  /\ promise[1].state = "rejected"
  /\ 2 \in InFlightOps(limiter)
  /\ 3 \in InFlightOps(limiter)

\* C8: operations are started in the order of their run() calls: the client
\* numbers its operations in call order, and the operation a step starts is
\* the earliest one not started before.
C8_FifoOrder ==
  [][\A op \in StartedIn(limiter, limiter') :
       op = calls - Len(limiter.queue) + 1]_vars

\* After a restart of the timer, two operations were queued together, the
\* first of them has been started and the second is still queued.
C8_Witness ==
  /\ limiter.created >= 2
  /\ Len(limiter.queue) >= 1
  /\ \E op \in InFlightOps(limiter) : op + 1 = Head(limiter.queue)
  /\ promise[1].state # "pending"

\* C9 as stated: the timer never fires against an empty queue.
C9_NoTickOnEmptyQueue ==
  [][TimerFired => Len(limiter.queue) > 0]_vars

\* C9 amended: the timer exists exactly while an operation is queued or
\* started and unsettled: it is cancelled when the last outstanding operation
\* settles, and a run() call on the idle limiter creates it again.
C9_TimerExistsWhileOutstanding ==
  (DOMAIN limiter.timers = {}) <=>
    (limiter.queue = <<>> /\ limiter.inflight = {})

\* The timer was cancelled and a later run() call created it again.
C9_Witness ==
  /\ limiter.created >= 2
  /\ DOMAIN limiter.timers # {}
  /\ Len(limiter.queue) > 0

\* --------------------------------- claims about the limiter's promise jobs
\* The started operations whose promise is not settled.
Unsettled == {op \in InFlightOps(limiter) : promise[op].state = "pending"}

\* At most one interval timer exists, one exists exactly when running is
\* true, and a non-empty queue has one.
TimerFollowsRunning ==
  /\ Cardinality(DOMAIN limiter.timers) <= 1
  /\ limiter.running <=> DOMAIN limiter.timers # {}
  /\ limiter.queue # <<>> => DOMAIN limiter.timers # {}

\* C16 as stated: counter is the number of queued operations plus the number
\* of started operations that are not settled, and the timer follows running.
C16_CounterIsQueuedPlusUnsettled ==
  /\ limiter.counter = Len(limiter.queue) + Cardinality(Unsettled)
  /\ TimerFollowsRunning

\* C16 amended: counter is the number of queued operations plus the number
\* of started operations whose completion callback has not run: an operation
\* whose result is delivered is counted until that callback runs.  The timer
\* follows running as stated.
C16_CounterIsQueuedPlusUnfinished ==
  /\ limiter.counter = Len(limiter.queue) + Cardinality(limiter.inflight)
  /\ TimerFollowsRunning

\* The caller's continuation has called run() after the result of the only
\* started operation was delivered and before its completion callback: the
\* new operation is queued, none is unsettled, and counter is 2.
C16_Witness ==
  /\ pc = "continued by run()"
  /\ Unsettled = {}
  /\ Len(limiter.queue) = 1
  /\ limiter.counter = 2
  /\ limiter.running

\* --------------------------------------------- claims about the selection
\* getReviewers has returned a selection.
Returned == Len(out.selection) > 0

Selection == out.selection[1]

Involved == Range(alreadyInvolvedUsers)

\* The author's mentor may be selected: there is one, who is neither the
\* author nor already involved.
MentorEligible ==
  /\ frame.mentor # NoUser
  /\ frame.mentor # input.author
  /\ frame.mentor \notin Involved

\* The members of the author's team that may be selected.
EligibleTeam ==
  {u \in Range(FindIncluding(frame.config.teams, input.author)) :
     u # input.author /\ u \notin Involved}

EligibleFirstBatch ==
  EligibleTeam \cup (IF MentorEligible THEN {frame.mentor} ELSE {})

TeamTier(u) == u \in EligibleTeam \ {frame.mentor}

GroupTier(u) == u \notin EligibleTeam /\ u # frame.mentor

\* C1 as stated: no selected username is already involved.
C1_SelectionExcludesInvolved ==
  Returned => Range(Selection) \cap Involved = {}

\* C10 as stated: the author is never selected.
C10_AuthorNeverSelected ==
  Returned => input.author \notin Range(Selection)

\* C3: after the first batch, after the top-up and in the returned list, the
\* number of reviewers taken is at most count minus the number of
\* already-involved users, hence at most count.
C3_AtMostCountMinusInvolved ==
  /\ frame.tier \in {"group", "returned"} =>
       /\ Len(frame.reviewers) <= input.count - Len(alreadyInvolvedUsers)
       /\ Len(frame.reviewers) <= input.count - Cardinality(Involved)
       /\ Len(frame.reviewers) <= input.count
  /\ Returned =>
       /\ Len(Selection) <= input.count - Len(alreadyInvolvedUsers)
       /\ Len(Selection) <= input.count

\* With a user already involved, the mentorship-group top-up fills the
\* selection to exactly count minus the number of already-involved users.
C3_Witness ==
  /\ Returned
  /\ Len(alreadyInvolvedUsers) > 0
  /\ Len(Selection) = input.count - Len(alreadyInvolvedUsers)
  /\ \E i \in 1..Len(Selection) : GroupTier(Selection[i])
  /\ \E i \in 1..Len(Selection) : TeamTier(Selection[i])

\* C4: an eligible mentor is the first entry; team-tier entries precede
\* mentorship-group-tier entries; and the mentorship-group tier is queried,
\* and a member of it selected, only when the eligible mentor and team
\* members are fewer than the requested number.
C4_TierPrecedence ==
  /\ Returned /\ MentorEligible /\ frame.targetCount >= 1 =>
       Len(Selection) >= 1 /\ Selection[1] = frame.mentor
  /\ Returned =>
       \A i, j \in 1..Len(Selection) :
         TeamTier(Selection[i]) /\ GroupTier(Selection[j]) => i < j
  /\ (\/ Returned /\ \E i \in 1..Len(Selection) : GroupTier(Selection[i])
      \/ \E op \in Range(limiter.queue) \cup InFlightOps(limiter) :
           op.tier = "group")
       => Cardinality(EligibleFirstBatch) < frame.targetCount

\* The selection is the mentor, then a team member, then a member of the
\* mentorship group.
C4_Witness ==
  /\ Returned
  /\ MentorEligible
  /\ Len(Selection) = 3
  /\ Selection[1] = frame.mentor
  /\ TeamTier(Selection[2])
  /\ GroupTier(Selection[3])

\* ------------------------------------- claims about the random variants
\* getReviewers has run after a config fetch that succeeded.
ConfigFetched == frame.tier \in {"returned", "thrown"}

AuthorHasTeam == Found(frame.config.teams, input.author)

AuthorHasGroup == Found(frame.config.mentorshipGroups, input.author)

\* C13 as stated: for every outcome of the shuffles, the newly selected
\* reviewers and the (distinct) already-involved users together are at most
\* count.
C13_InvolvedPlusSelectedWithinCount ==
  Returned => Len(Selection) + Cardinality(Involved) <= input.count

\* C14 as stated: with an author in no team and no mentorship group,
\* getReviewers returns the mentor alone or the empty list, and run reports
\* no failure of it.
C14_NoTeamAndNoGroupIsNoError ==
  ConfigFetched /\ ~AuthorHasTeam /\ ~AuthorHasGroup =>
    /\ Returned
    /\ Selection = IF frame.mentor # NoUser /\ frame.mentor \notin Involved
                     THEN <<frame.mentor>> ELSE <<>>
    /\ out.errors \subseteq {"requestReviewers"}

\* C15 as stated: with an author who has a team and a mentorship group, for
\* every outcome of the shuffles, no username is twice in the returned list.
C15_NoUsernameTwice ==
  Returned /\ AuthorHasTeam /\ AuthorHasGroup =>
    \A i, j \in 1..Len(Selection) : i # j => Selection[i] # Selection[j]

\* ------------------------------------------------ claims about the estimator
\* The mentees of the i-th candidate of the tier being ranked.
MenteesOfCandidate(i) ==
  MenteesList(frame.config.mentors, frame.usernamesList[i])

\* The queries of the tier being ranked that are queued or started.
OutstandingQueries == Range(limiter.queue) \cup InFlightOps(limiter)

\* C11: twice the score of a ranked candidate is 2 * (rawRequested +
\* rawReviewed) minus (menteeRequested + menteeReviewed) when the candidate
\* has a mentee, and 2 * (rawRequested + rawReviewed) when it has none; and
\* for a candidate without mentees no third or fourth query is ever issued or
\* answered.
C11_LoadScore ==
  /\ \A i \in 1..Len(frame.est) :
       LET e == frame.est[i]
       IN  /\ MenteesOfCandidate(i) = {} => Len(e.counts) <= 2
           /\ e.state = "fulfilled" =>
                Len(e.counts) = IF MenteesOfCandidate(i) = {} THEN 2 ELSE 4
  /\ \A op \in OutstandingQueries :
       op.q > 2 => MenteesOfCandidate(op.i) # {}
  /\ Returned =>
       \A k \in 1..Len(frame.reviewers) : \A i \in 1..Len(frame.usernamesList) :
         frame.reviewers[k].username = frame.usernamesList[i] =>
           LET c == frame.est[i].counts
           IN  frame.reviewers[k].reviewLoading =
                 IF MenteesOfCandidate(i) = {}
                   THEN 2 * (c[1] + c[2])
                   ELSE 2 * (c[1] + c[2]) - (c[3] + c[4])

\* Two selected candidates of one tier: one has a mentee and its four
\* queries reported pulls, so that its score is discounted; the other has no
\* mentee and was ranked on two queries.
C11_Witness ==
  /\ Returned
  /\ \E k, l \in 1..Len(frame.reviewers) :
       \E i, j \in 1..Len(frame.usernamesList) :
         /\ frame.reviewers[k].username = frame.usernamesList[i]
         /\ frame.reviewers[l].username = frame.usernamesList[j]
         /\ MenteesOfCandidate(i) # {}
         /\ frame.est[i].counts = <<1, 1, 1, 0>>
         /\ frame.reviewers[k].reviewLoading = 3
         /\ MenteesOfCandidate(j) = {}
         /\ frame.est[j].counts = <<1, 1>>
         /\ frame.reviewers[l].reviewLoading = 4
         /\ k < l


\* The place of user u in the list, 0 when u is not in it.
PositionIn(list, u) ==
  IF Includes(list, u)
    THEN CHOOSE i \in 1..Len(list) :
           list[i] = u /\ \A k \in 1..(i - 1) : list[k] # u
    ELSE 0

\* Twice the load score this run obtained for candidate u: from the estimate
\* of u in the tier ranked last, or, for a candidate of the team tier once
\* the mentorship-group tier is ranked, from its entry in reviewers (the
\* whole team tier was taken then).
ScoreOf(u) ==
  IF Includes(frame.usernamesList, u)
    THEN ReviewLoading2(frame.est[PositionIn(frame.usernamesList, u)].counts)
    ELSE frame.reviewers[CHOOSE k \in 1..Len(frame.reviewers) :
                           frame.reviewers[k].username = u].reviewLoading

\* The users of set S by ascending score, users of equal score in the order
\* of the config list.
Ranked(S, list) ==
  CHOOSE seq \in [1..Cardinality(S) -> S] :
    \A i, j \in 1..Cardinality(S) : i < j =>
      \/ ScoreOf(seq[i]) < ScoreOf(seq[j])
      \/ /\ ScoreOf(seq[i]) = ScoreOf(seq[j])
         /\ PositionIn(list, seq[i]) < PositionIn(list, seq[j])

\* The selection as a function of the config, the author, the
\* already-involved list, count and the candidates' scores alone: the
\* mentor, the team candidates as ranked, and, when these are fewer than the
\* target, the remaining mentorship-group candidates as ranked.
DeterminedSelection ==
  LET target == input.count - Len(alreadyInvolvedUsers)
      team   == FindIncluding(frame.config.teams, input.author)
      group  == FindIncluding(frame.config.mentorshipGroups, input.author)
      teamSet == {u \in Range(team) :
                    u # input.author /\ u # frame.mentor /\ u \notin Involved}
      first  == (IF frame.mentor # NoUser THEN <<frame.mentor>> ELSE <<>>)
                  \o Ranked(teamSet, team)
  IN  IF Len(first) >= target
        THEN Take(first, target)
        ELSE LET groupSet == {u \in Range(group) :
                                /\ u # input.author
                                /\ u \notin Involved
                                /\ u \notin Range(first)}
             IN  first \o Take(Ranked(groupSet, group), target - Len(first))

\* C12: the ordered selection getReviewers returns is the one determined by
\* the config, the author, the already-involved list, count and the
\* candidates' scores, in whatever order the limiter started the load
\* queries and in whatever order they were answered; candidates of equal
\* score are selected in their order in the config.
C12_SelectionIsDetermined ==
  Returned => Selection = DeterminedSelection

\* Two team candidates of equal score were both selected, in their config
\* order, although the estimate of the second was fulfilled before that of
\* the first.
C12_Witness ==
  /\ Returned
  /\ frame.tier = "returned"
  /\ \E i, j \in 1..Len(frame.usernamesList) :
       /\ i < j
       /\ TeamTier(frame.usernamesList[i])
       /\ TeamTier(frame.usernamesList[j])
       /\ ScoreOf(frame.usernamesList[i]) = ScoreOf(frame.usernamesList[j])
       /\ frame.est[j].rank < frame.est[i].rank
       /\ \E k \in 1..(Len(Selection) - 1) :
            /\ Selection[k] = frame.usernamesList[i]
            /\ Selection[k + 1] = frame.usernamesList[j]

\* --------------------------------------------- claims about the orchestrator
\* run has taken its decision: both listings answered.
Decided ==
  /\ ~input.draft
  /\ pc \notin {"start", "listReviews", "listRequestedReviewers"}
  /\ out.errors \cap {"listReviews", "listRequestedReviewers"} = {}

\* C5 as stated: with the distinct already-involved users at least count,
\* the selector is not invoked and nothing is submitted; otherwise it is
\* invoked, for exactly count minus the number of distinct users.
C5_DecisionCountsDistinctUsers ==
  Decided =>
    IF Cardinality(Involved) >= input.count
      THEN out.getReviewers = <<>> /\ out.requestReviewers = <<>>
      ELSE /\ Len(out.getReviewers) = 1
           /\ frame.tier # "none" =>
                frame.targetCount = input.count - Cardinality(Involved)

\* C6: once the config fetch, a listing or a load query has failed, the
\* failure has been reported with that error's message and no reviewer
\* request is made, whatever is still queued or in flight in the limiter.
C6_FailureReportedAndNothingRequested ==
  out.errors \cap {"gists.get", "listReviews", "listRequestedReviewers",
                   "search"} # {}
    => /\ Len(out.setFailed) = 1
       /\ out.setFailed[1] \in {ErrorOf(api).message : api \in out.errors}
       /\ out.requestReviewers = <<>>

\* A load query has failed and the failure is reported while a query of
\* another candidate is still queued in the limiter.
C6_Witness ==
  /\ "search" \in out.errors
  /\ out.setFailed = <<ErrorOf("search").message>>
  /\ out.requestReviewers = <<>>
  /\ limiter.queue # <<>>

====
